---- MODULE Spec2Model ----
(***************************************************************************)
(* Voxel lighting of Voxxel-Engine: the Lightmap (lighting/lightmap.rs),   *)
(* the flood-fill propagate and the sky seeder propagate_sky               *)
(* (lighting/propagation.rs), over a world that reports a per-voxel        *)
(* opacity (lighting/lighting_world.rs), and the removal of light by       *)
(* unpropagate as section 4.4 of the specification describes it.           *)
(***************************************************************************)
EXTENDS Integers, Sequences, FiniteSets, TLC

\* ------------------------------------------------------------------------
\* Bounds of the model
\* ------------------------------------------------------------------------
\* Width of the region of the general specification (its height is 2 and its
\* depth 1: the smallest region in which light can go around an obstacle).
Width == 3
\* Longest list of light sources handed to one propagate call.
MaxSeeds == 2
\* Largest number of voxels of the region that are not fully transparent.
MaxBlocks == 1
\* Side of the cubic, fully open region of SpecOpen.
OpenSide == 3
\* Width and height of the terrain of SpecSky (its depth is 1).
SkyWidth == 2
SkyHeight == 3
\* A worklist is followed up to MaxQueue entries per voxel of the region.
MaxQueue == 2
\* Length of the corridor of SpecCorridor (one voxel high and deep).
CorridorLen == 4
\* Longest list of removal seeds handed to one unpropagate call.
MaxRemoved == 1
\* Width of the lightmap of SpecLightmap (its height and depth are 2).
LmWidth == 2
\* Width of the region of SpecTwice (its height is 2 and its depth 1).
TwiceWidth == 2

\* Opacity of a fully opaque block (lighting_world.rs: "255 = fully opaque").
Opaque == 255

\* Opacities a voxel may have: air, a semi-opaque block, a fully opaque block.
Opacities == {0, 2, Opaque}
\* Attenuations a call may be given.
Attenuations == {0, 1, 255}
\* The colour of the i-th light source of a call.
Palette == << <<4, 1, 0>>, <<0, 3, 6>>, <<2, 2, 2>> >>
\* Sky colours a propagate_sky call may be given.
SkyColors == { <<5, 5, 4>>, <<255, 2, 0>> }

Black == <<0, 0, 0>>

VARIABLES
  width, height, depth,  \* Lightmap.width / height / depth
  data,                  \* Lightmap.data, indexed from 0
  opacity,               \* the world's opacity field (LightingWorld::get_opacity)
  pc,                    \* "idle", the loop the running call is in, "aborted" or "panicked"
  op,                    \* the last call made: "none", or the name of the function
  queue,                 \* the VecDeque of the running flood fill
  attenuation,           \* the attenuation argument of the call
  sources,               \* the sources argument of the propagate call
  sky_color,             \* the sky_color argument of the propagate_sky call
  before,                \* Lightmap.data when the call was made
  removal,               \* the seeds argument of the unpropagate call
  previous,              \* the call made before the last one: its name and arguments
  refill,                \* the refill seeds the siphon pass has recorded
  args,                  \* the arguments of the last call of a Lightmap method
  ret                    \* what the last call of a Lightmap method returned

vars == <<width, height, depth, data, opacity, pc, op, queue, attenuation,
          sources, sky_color, before, removal, refill, args, ret, previous>>

\* ------------------------------------------------------------------------
\* Lightmap
\* ------------------------------------------------------------------------
Region == (0 .. width - 1) \X (0 .. height - 1) \X (0 .. depth - 1)

Size == width * height * depth

IndexNoStride(x, y, z) == x + y + z * width * height

\* Lightmap::index
Index(x, y, z) == x + y * width + z * width * height

\* Lightmap::get
Get(dat, x, y, z) == dat[Index(x, y, z)]

\* Lightmap::set
Set(dat, x, y, z, color) == [dat EXCEPT ![Index(x, y, z)] = color]

\* Lightmap::new
NewData(w, h, d) == [i \in 0 .. (w * h * d - 1) |-> Black]

\* ------------------------------------------------------------------------
\* World
\* ------------------------------------------------------------------------
\* The world of the repository's tests, a Lightmap with an opacity function.
in_bounds(c) ==
  /\ c[1] >= 0 /\ c[1] < width
  /\ c[2] >= 0 /\ c[2] < height
  /\ c[3] >= 0 /\ c[3] < depth

\* LightingWorld::get_opacity
get_opacity(x, y, z) == IF ~in_bounds(<<x, y, z>>) THEN 255 ELSE opacity[<<x, y, z>>]

\* LightingWorld::get_light
get_light(dat, c) == IF ~in_bounds(c) THEN <<0, 0, 0>> ELSE dat[c[1] + c[2] * width + c[3] * width * height]

\* LightingWorld::set_light
set_light(dat, c, color) ==
  IF in_bounds(c) THEN [dat EXCEPT ![c[1] + c[2] * width + c[3] * width * height] = color] ELSE dat

is_transparent_always(x, y, z) == TRUE

\* LightGrid::is_transparent: whether the block lets light pass through.
is_transparent(x, y, z) == get_opacity(x, y, z) # Opaque

\* ------------------------------------------------------------------------
\* u8 arithmetic
\* ------------------------------------------------------------------------
saturating_sub(a, b) == IF a > b THEN a - b ELSE 0

max(a, b) == IF a >= b THEN a ELSE b

\* ------------------------------------------------------------------------
\* propagate
\* ------------------------------------------------------------------------
neighborsTypo == << <<1, 0, 0>>, <<-1, 0, 0>>,
                    <<0, 1, 0>>, <<0, -1, 0>>,
                    <<0, 0, 1>>, <<0, 0, 1>> >>

neighbors == << <<1, 0, 0>>, <<-1, 0, 0>>,
                <<0, 1, 0>>, <<0, -1, 0>>,
                <<0, 0, 1>>, <<0, 0, -1>> >>

min(a, b) == IF a <= b THEN a ELSE b

MergedSum(existing, color) ==
  << min(255, existing[1] + color[1]), min(255, existing[2] + color[2]),
     min(255, existing[3] + color[3]) >>

Overwritten(existing, color) == color

\* The per-channel maximum written at a seed and at an improved neighbour.
Merged(existing, color) ==
  << max(existing[1], color[1]), max(existing[2], color[2]), max(existing[3], color[3]) >>

\* The bounds test on a source.
SourceInRegion(src) == src.x < width /\ src.y < height /\ src.z < depth

RECURSIVE SeedSourcesClamped(_, _, _, _)
SeedSourcesClamped(dat, q, srcs, i) ==
  IF i > Len(srcs) THEN <<dat, q>>
  ELSE LET x == min(srcs[i].x, width - 1)
           y == min(srcs[i].y, height - 1)
           z == min(srcs[i].z, depth - 1)
       IN SeedSourcesClamped(Set(dat, x, y, z, Merged(Get(dat, x, y, z), srcs[i].color)),
                             Append(q, <<x, y, z>>), srcs, i + 1)

RECURSIVE SeedSourcesOverwrite(_, _, _, _)
SeedSourcesOverwrite(dat, q, srcs, i) ==
  IF i > Len(srcs) THEN <<dat, q>>
  ELSE LET src == srcs[i] IN
       IF SourceInRegion(src)
       THEN SeedSourcesOverwrite(Set(dat, src.x, src.y, src.z, src.color),
                                 Append(q, <<src.x, src.y, src.z>>), srcs, i + 1)
       ELSE SeedSourcesOverwrite(dat, q, srcs, i + 1)

\* The seeding loop: sources i .. Len(srcs) merged into dat and pushed on q.
RECURSIVE SeedSources(_, _, _, _)
SeedSources(dat, q, srcs, i) ==
  IF i > Len(srcs) THEN <<dat, q>>
  ELSE LET src == srcs[i] IN
       IF SourceInRegion(src)
       THEN LET existing == Get(dat, src.x, src.y, src.z)
                merged == Merged(existing, src.color)
            IN SeedSources(Set(dat, src.x, src.y, src.z, merged),
                           Append(q, <<src.x, src.y, src.z>>), srcs, i + 1)
       ELSE SeedSources(dat, q, srcs, i + 1)

NeighborInRegionLoose(nx, ny, nz) ==
  /\ ~(nx < 0 \/ ny < 0 \/ nz < 0)
  /\ ~(nx > width \/ ny > height \/ nz > depth)

\* The two bounds tests on a neighbour coordinate.
NeighborInRegion(nx, ny, nz) ==
  /\ ~(nx < 0 \/ ny < 0 \/ nz < 0)
  /\ ~(nx >= width \/ ny >= height \/ nz >= depth)

NotAttenuated(current, att) == current

\* The light a voxel hands to a neighbour.
Attenuated(current, att) ==
  << saturating_sub(current[1], att),
     saturating_sub(current[2], att),
     saturating_sub(current[3], att) >>

FullyAttenuatedRed(attenuated) == attenuated[1] = 0

\* "Skip if fully attenuated".
FullyAttenuated(attenuated) ==
  attenuated[1] = 0 /\ attenuated[2] = 0 /\ attenuated[3] = 0

ImprovesOrEqual(attenuated, neighbor) ==
  attenuated[1] >= neighbor[1] \/ attenuated[2] >= neighbor[2] \/ attenuated[3] >= neighbor[3]

ImprovesAll(attenuated, neighbor) ==
  attenuated[1] > neighbor[1] /\ attenuated[2] > neighbor[2] /\ attenuated[3] > neighbor[3]

\* Whether the attenuated light improves the neighbour.
Improves(attenuated, neighbor) ==
  attenuated[1] > neighbor[1] \/ attenuated[2] > neighbor[2] \/ attenuated[3] > neighbor[3]

\* The body of the while loop for the popped voxel p, directions i .. 6.
RECURSIVE VisitNeighbors(_, _, _, _, _, _)
VisitNeighbors(dat, q, p, current, att, i) ==
  IF i > 6 THEN <<dat, q>>
  ELSE LET nx == p[1] + neighbors[i][1]
           ny == p[2] + neighbors[i][2]
           nz == p[3] + neighbors[i][3]
           attenuated == Attenuated(current, att)
       IN
       IF ~NeighborInRegion(nx, ny, nz) THEN VisitNeighbors(dat, q, p, current, att, i + 1)
       ELSE IF ~is_transparent(nx, ny, nz) THEN VisitNeighbors(dat, q, p, current, att, i + 1)
       ELSE IF FullyAttenuated(attenuated) THEN VisitNeighbors(dat, q, p, current, att, i + 1)
       ELSE LET neighbor == Get(dat, nx, ny, nz) IN
            IF Improves(attenuated, neighbor)
            THEN VisitNeighbors(Set(dat, nx, ny, nz, Merged(neighbor, attenuated)),
                                Append(q, <<nx, ny, nz>>), p, current, att, i + 1)
            ELSE VisitNeighbors(dat, q, p, current, att, i + 1)

\* One iteration of the while loop: pop the front voxel, visit its neighbours.
PopAndVisit(dat, q, att) ==
  LET p == Head(q)
      current == Get(dat, p[1], p[2], p[3])
  IN VisitNeighbors(dat, Tail(q), p, current, att, 1)

\* The whole while loop: the lightmap when the worklist has emptied.
RECURSIVE Drain(_, _, _), DrainPair(_, _)
Drain(dat, q, att) ==
  IF q = <<>> THEN dat
  ELSE DrainPair(PopAndVisit(dat, q, att), att)

\* propagate as a function: the lightmap it leaves when called on dat.
DrainPair(r, att) == Drain(r[1], r[2], att)

PropagateResult(dat, srcs, att) == DrainPair(SeedSources(dat, <<>>, srcs, 1), att)

\* The body of the while loop with the six directions taken in the order
\* dirs, a permutation of 1 .. 6: directions dirs[i] .. dirs[6].
RECURSIVE VisitNeighborsIn(_, _, _, _, _, _, _)
VisitNeighborsIn(dirs, dat, q, p, current, att, i) ==
  IF i > 6 THEN <<dat, q>>
  ELSE LET nx == p[1] + neighbors[dirs[i]][1]
           ny == p[2] + neighbors[dirs[i]][2]
           nz == p[3] + neighbors[dirs[i]][3]
           attenuated == Attenuated(current, att)
       IN
       IF ~NeighborInRegion(nx, ny, nz) THEN VisitNeighborsIn(dirs, dat, q, p, current, att, i + 1)
       ELSE IF ~is_transparent(nx, ny, nz) THEN VisitNeighborsIn(dirs, dat, q, p, current, att, i + 1)
       ELSE IF FullyAttenuated(attenuated) THEN VisitNeighborsIn(dirs, dat, q, p, current, att, i + 1)
       ELSE LET neighbor == Get(dat, nx, ny, nz) IN
            IF Improves(attenuated, neighbor)
            THEN VisitNeighborsIn(dirs, Set(dat, nx, ny, nz, Merged(neighbor, attenuated)),
                                  Append(q, <<nx, ny, nz>>), p, current, att, i + 1)
            ELSE VisitNeighborsIn(dirs, dat, q, p, current, att, i + 1)

\* The while loop with the directions taken in the order dirs.
RECURSIVE DrainIn(_, _, _, _), DrainPairIn(_, _, _)
DrainIn(dirs, dat, q, att) ==
  IF q = <<>> THEN dat
  ELSE DrainPairIn(dirs,
                   VisitNeighborsIn(dirs, dat, Tail(q), Head(q),
                                    Get(dat, Head(q)[1], Head(q)[2], Head(q)[3]), att, 1),
                   att)

DrainPairIn(dirs, r, att) == DrainIn(dirs, r[1], r[2], att)

\* propagate with the directions taken in the order dirs, as a function.
PropagateResultIn(dirs, dat, srcs, att) ==
  DrainPairIn(dirs, SeedSources(dat, <<>>, srcs, 1), att)

\* The light sources a call may be given: the i-th source has the i-th colour
\* of the palette and lies in the region or just outside it.
SourcePositions == Region \cup { <<width, 0, 0>> }

LightSource(pos, i) ==
  [x |-> pos[1], y |-> pos[2], z |-> pos[3], color |-> Palette[((i - 1) % Len(Palette)) + 1]]

SourceLists ==
  UNION { { [i \in 1 .. n |-> LightSource(ps[i], i)] : ps \in [1 .. n -> SourcePositions] }
          : n \in 0 .. MaxSeeds }

\* The lightmap and the worklist after a loop that ended with the pair r.
Becomes(r) ==
  /\ data' = r[1]
  /\ queue' = r[2]

\* propagate(lightmap, srcs, grid, att): the seeding loop.
PropagateCall(srcs, att) ==
  /\ Becomes(SeedSources(data, <<>>, srcs, 1))
  /\ before' = data
  /\ sources' = srcs
  /\ attenuation' = att
  /\ op' = "propagate"
  /\ pc' = "bfs"
  /\ UNCHANGED <<previous, args, ret, width, height, depth, opacity, sky_color, removal, refill>>

\* A call of propagate on the lightmap, with any source list and attenuation.
Propagate ==
  /\ pc = "idle"
  /\ op = "none"
  /\ \E srcs \in SourceLists, att \in Attenuations : PropagateCall(srcs, att)

\* propagate: one iteration of "while let Some((x, y, z)) = queue.pop_front()".
PropagateStep ==
  /\ pc = "bfs"
  /\ queue # <<>>
  /\ Len(queue) <= MaxQueue * Size
  /\ Becomes(PopAndVisit(data, queue, attenuation))
  /\ UNCHANGED <<previous, args, ret, width, height, depth, opacity, pc, op, attenuation, sources, sky_color, before, removal, refill>>

\* propagate: the worklist is empty, the call returns.
PropagateReturn ==
  /\ pc = "bfs"
  /\ queue = <<>>
  /\ pc' = "idle"
  /\ UNCHANGED <<previous, args, ret, width, height, depth, data, opacity, op, queue, attenuation, sources,
                 sky_color, before, removal, refill>>

\* A further propagate call on the lightmap that a propagate call has left.
PropagateAgainCall(srcs, att) ==
  /\ Becomes(SeedSources(data, <<>>, srcs, 1))
  /\ before' = data
  /\ sources' = srcs
  /\ attenuation' = att
  /\ op' = "propagate_again"
  /\ pc' = "bfs"
  /\ previous' = [op |-> op, sources |-> sources, sky_color |-> sky_color,
                  attenuation |-> attenuation]
  /\ UNCHANGED <<args, ret, width, height, depth, opacity, sky_color, removal, refill>>

\* Positions beyond the region, on each axis and far away.
OutsidePositions ==
  { <<width, 0, 0>>, <<0, height, 0>>, <<0, 0, depth>>, <<width + 7, height + 7, depth + 7>> }

\* The source lists without a source in the region.
OutsideLists ==
  UNION { { [i \in 1 .. n |-> LightSource(ps[i], i)] : ps \in [1 .. n -> OutsidePositions] }
          : n \in 0 .. MaxSeeds }

\* A further propagate call none of whose sources lies in the region.
PropagateOutside ==
  /\ pc = "idle"
  /\ op = "propagate"
  /\ \E srcs \in OutsideLists, att \in Attenuations : PropagateAgainCall(srcs, att)

\* ------------------------------------------------------------------------
\* propagate_sky
\* ------------------------------------------------------------------------
TopOpaqueFromBelow(x, z, y) ==
  IF \A yy \in 0 .. height - 1 : is_transparent(x, yy, z) THEN -1
  ELSE CHOOSE yy \in 0 .. height - 1 :
         /\ ~is_transparent(x, yy, z)
         /\ \A lower \in 0 .. yy - 1 : is_transparent(x, lower, z)

\* "Find the highest opaque block in this column": the scan from y downwards.
RECURSIVE TopOpaque(_, _, _)
TopOpaque(x, z, y) ==
  IF y < 0 THEN -1
  ELSE IF ~is_transparent(x, y, z) THEN y
  ELSE TopOpaque(x, z, y - 1)

\* "All voxels above the highest opaque block get full sky light": y .. height - 1.
RECURSIVE FillColumn(_, _, _, _, _, _)
FillColumn(dat, q, x, z, y, sky) ==
  IF y >= height THEN <<dat, q>>
  ELSE LET existing == Get(dat, x, y, z)
           merged == Merged(existing, sky)
       IN FillColumn(Set(dat, x, y, z, merged), Append(q, <<x, y, z>>), x, z, y + 1, sky)

\* The loops "for x in 0..w { for z in 0..d { ... } }", from column (x, z) on.
RECURSIVE SkyColumns(_, _, _, _, _)
SkyColumns(dat, q, x, z, sky) ==
  IF x >= width THEN <<dat, q>>
  ELSE IF z >= depth THEN SkyColumns(dat, q, x + 1, 0, sky)
  ELSE LET top_opaque == TopOpaque(x, z, height - 1)
           filled == FillColumn(dat, q, x, z, top_opaque + 1, sky)
       IN \* The test is always true (set keeps the buffer's length); it makes TLC
          \* evaluate this column before it goes on to the next one.
          IF DOMAIN filled[1] = DOMAIN dat THEN SkyColumns(filled[1], filled[2], x, z + 1, sky)
          ELSE <<dat, q>>

\* propagate_sky(lightmap, grid, sky, att): the column scan.
PropagateSkyCall(sky, att) ==
  /\ Becomes(SkyColumns(data, <<>>, 0, 0, sky))
  /\ before' = data
  /\ sky_color' = sky
  /\ attenuation' = att
  /\ op' = "propagate_sky"
  /\ pc' = "sky_bfs"
  /\ UNCHANGED <<previous, args, ret, width, height, depth, opacity, sources, removal, refill>>

\* A call of propagate_sky on the lightmap, with any sky colour and attenuation.
PropagateSky ==
  /\ pc = "idle"
  /\ op = "none"
  /\ \E sky \in SkyColors, att \in Attenuations : PropagateSkyCall(sky, att)

\* propagate_sky: one iteration of its flood-fill loop.
PropagateSkyStep ==
  /\ pc = "sky_bfs"
  /\ queue # <<>>
  /\ Len(queue) <= MaxQueue * Size
  /\ Becomes(PopAndVisit(data, queue, attenuation))
  /\ UNCHANGED <<previous, args, ret, width, height, depth, opacity, pc, op, attenuation, sources, sky_color, before, removal, refill>>

\* propagate_sky: the worklist is empty, the call returns.
PropagateSkyReturn ==
  /\ pc = "sky_bfs"
  /\ queue = <<>>
  /\ pc' = "idle"
  /\ UNCHANGED <<previous, args, ret, width, height, depth, data, opacity, op, queue, attenuation, sources,
                 sky_color, before, removal, refill>>

\* ------------------------------------------------------------------------
\* unpropagate ("siphon and refill")
\* ------------------------------------------------------------------------
\* Coordinates::neighbors: the six face-adjacent block positions.
Neighbors(c) ==
  << <<c[1] + 1, c[2], c[3]>>, <<c[1] - 1, c[2], c[3]>>,
     <<c[1], c[2] + 1, c[3]>>, <<c[1], c[2] - 1, c[3]>>,
     <<c[1], c[2], c[3] + 1>>, <<c[1], c[2], c[3] - 1>> >>

saturating_add(a, b) == min(255, a + b)

\* The light a neighbour n holds if it was derived solely from a voxel that
\* held old: old - (attenuation + opacity(n)) per channel.
Expected(old, att, n) ==
  LET cost == saturating_add(att, get_opacity(n[1], n[2], n[3]))
  IN << saturating_sub(old[1], cost), saturating_sub(old[2], cost), saturating_sub(old[3], cost) >>

\* "For each removal seed, record its light value, zero it, and enqueue
\* (coord, old_value)": seeds i .. Len(seeds).
RECURSIVE SiphonSeeds(_, _, _, _)
SiphonSeeds(dat, q, seeds, i) ==
  IF i > Len(seeds) THEN <<dat, q>>
  ELSE LET old == get_light(dat, seeds[i])
       IN SiphonSeeds(set_light(dat, seeds[i], Black), Append(q, <<seeds[i], old>>), seeds, i + 1)

\* "For each neighbor, compare its current light to the formula": a match is
\* zeroed and enqueued with its own old value, a mismatch is recorded as a
\* refill seed and left untouched. Neighbours i .. 6 of the popped entry (c, old).
RECURSIVE SiphonNeighbors(_, _, _, _, _, _, _)
SiphonNeighbors(dat, q, rf, c, old, att, i) ==
  IF i > 6 THEN <<dat, q, rf>>
  ELSE LET n == Neighbors(c)[i]
           light == get_light(dat, n)
       IN IF light = Expected(old, att, n)
          THEN SiphonNeighbors(set_light(dat, n, Black), Append(q, <<n, light>>), rf,
                               c, old, att, i + 1)
          ELSE SiphonNeighbors(dat, q, Append(rf, n), c, old, att, i + 1)

\* "Pop entries": one entry of the siphon worklist.
PopAndSiphon(dat, q, rf, att) ==
  SiphonNeighbors(dat, Tail(q), rf, Head(q)[1], Head(q)[2], att, 1)

\* A coordinate (i32) as the u32 of a LightSource: a negative coordinate wraps
\* to a value beyond every region (2^32 + a, held here at the largest integer).
as_u32(a) == IF a < 0 THEN 2147483647 ELSE a

\* The refill seeds i .. Len(rf) as light sources, "their current light values".
RECURSIVE RefillSources(_, _, _)
RefillSources(dat, rf, i) ==
  IF i > Len(rf) THEN <<>>
  ELSE << [x |-> as_u32(rf[i][1]), y |-> as_u32(rf[i][2]), z |-> as_u32(rf[i][3]),
           color |-> get_light(dat, rf[i])] >> \o RefillSources(dat, rf, i + 1)

\* The lists of removal seeds a call may be given.
RemovalLists == UNION { [1 .. n -> Region] : n \in 0 .. MaxRemoved }

\* The lightmap, the worklist and the refill seeds after a siphon loop that
\* ended with the triple r.
Siphoned(r) ==
  /\ data' = r[1]
  /\ queue' = r[2]
  /\ refill' = r[3]

\* unpropagate(world, seeds, att): the removal seeds are recorded and zeroed.
UnpropagateCall(seeds, att) ==
  /\ Becomes(SiphonSeeds(data, <<>>, seeds, 1))
  /\ before' = data
  /\ removal' = seeds
  /\ refill' = <<>>
  /\ attenuation' = att
  /\ op' = "unpropagate"
  /\ pc' = "siphon"
  /\ UNCHANGED <<previous, args, ret, width, height, depth, opacity, sources, sky_color>>

\* A call of unpropagate on the lightmap a propagate call has left.
Unpropagate ==
  /\ pc = "idle"
  /\ op = "propagate"
  /\ \E seeds \in RemovalLists, att \in Attenuations : UnpropagateCall(seeds, att)

\* Siphon pass: one entry is popped and its neighbours are compared.
SiphonStep ==
  /\ pc = "siphon"
  /\ queue # <<>>
  /\ Len(queue) <= MaxQueue * Size
  /\ Siphoned(PopAndSiphon(data, queue, refill, attenuation))
  /\ UNCHANGED <<previous, args, ret, width, height, depth, opacity, pc, op, attenuation, sources, sky_color,
                 before, removal>>

\* Siphon pass: the worklist has outgrown the memory there is for it, the
\* allocation of push_back fails and the call dies.
SiphonOverflow ==
  /\ pc = "siphon"
  /\ Len(queue) > MaxQueue * Size
  /\ pc' = "aborted"
  /\ UNCHANGED <<previous, args, ret, width, height, depth, data, opacity, op, queue, attenuation, sources,
                 sky_color, before, removal, refill>>

\* Refill pass: the siphon worklist is empty, propagate is called with the
\* refill seeds as sources and runs its seeding loop.
Refill ==
  /\ pc = "siphon"
  /\ queue = <<>>
  /\ Becomes(SeedSources(data, <<>>, RefillSources(data, refill, 1), 1))
  /\ sources' = RefillSources(data, refill, 1)
  /\ pc' = "bfs"
  /\ UNCHANGED <<previous, args, ret, width, height, depth, opacity, op, attenuation, sky_color, before,
                 removal, refill>>

\* ------------------------------------------------------------------------
\* unpropagate_sky
\* ------------------------------------------------------------------------
Below(c) == <<c[1], c[2] - 1, c[3]>>

RECURSIVE ColumnThroughUnlit(_, _)
ColumnThroughUnlit(dat, c) ==
  IF get_opacity(c[1], c[2], c[3]) # Opaque
  THEN <<c>> \o ColumnThroughUnlit(dat, Below(c))
  ELSE <<>>

\* "Walk straight down ... while the voxel is non-opaque and currently lit,
\* collecting it as a removal seed; stop at the first opaque voxel or first
\* unlit voxel": the walk from c on.
RECURSIVE Column(_, _)
Column(dat, c) ==
  IF get_opacity(c[1], c[2], c[3]) # Opaque /\ get_light(dat, c) # Black
  THEN <<c>> \o Column(dat, Below(c))
  ELSE <<>>

\* The positions a block may be placed at: the voxels of the region and the
\* ones just above it.
PlacedPositions == (0 .. width - 1) \X (0 .. height) \X (0 .. depth - 1)

\* unpropagate_sky(world, placed_pos, att): the column below placed_pos is
\* collected and fed to unpropagate, whose siphon pass records and zeroes it.
UnpropagateSkyCall(placed_pos, att) ==
  /\ Becomes(SiphonSeeds(data, <<>>, Column(data, Below(placed_pos)), 1))
  /\ before' = data
  /\ removal' = Column(data, Below(placed_pos))
  /\ refill' = <<>>
  /\ attenuation' = att
  /\ args' = <<placed_pos>>
  /\ op' = "unpropagate_sky"
  /\ pc' = "siphon"
  /\ UNCHANGED <<previous, ret, width, height, depth, opacity, sources, sky_color>>

\* A call of unpropagate_sky on the lightmap a propagate_sky call has left.
UnpropagateSky ==
  /\ pc = "idle"
  /\ op = "propagate_sky"
  /\ \E placed_pos \in PlacedPositions, att \in Attenuations :
        UnpropagateSkyCall(placed_pos, att)

\* ------------------------------------------------------------------------
\* The methods of Lightmap, called from outside
\* ------------------------------------------------------------------------
\* The coordinates a caller may pass: those of the region and one beyond it
\* on each axis.
Coords == (0 .. width) \X (0 .. height) \X (0 .. depth)

\* The colours a caller may set.
SetColors == { Palette[1], Black }

\* The bounds check of "self.data[idx]": an index past the Vec panics.
InData(dat, idx) == idx < Cardinality(DOMAIN dat)

ClearFirst(dat) == [dat EXCEPT ![0] = Black]

\* Lightmap::clear
Clear(dat) == [i \in DOMAIN dat |-> Black]

\* The bytes of the voxels i .. Size - 1, as from_raw_parts lays them out.
RECURSIVE AsBytesPadded(_, _)
AsBytesPadded(dat, i) ==
  IF i >= Size THEN <<>>
  ELSE <<dat[i][1], dat[i][2], dat[i][3], 0>> \o AsBytesPadded(dat, i + 1)

\* Lightmap::as_bytes: data.len() * 3 bytes from data.as_ptr().
RECURSIVE AsBytes(_, _)
AsBytes(dat, i) ==
  IF i >= Size THEN <<>>
  ELSE <<dat[i][1], dat[i][2], dat[i][3]>> \o AsBytes(dat, i + 1)

\* lightmap.set(x, y, z, color)
LmSet ==
  /\ pc = "idle"
  /\ \E c \in Coords, color \in SetColors :
        /\ args' = <<c[1], c[2], c[3], color>>
        /\ IF InData(data, Index(c[1], c[2], c[3]))
           THEN data' = Set(data, c[1], c[2], c[3], color) /\ pc' = "idle"
           ELSE data' = data /\ pc' = "panicked"
  /\ op' = "set"
  /\ ret' = <<>>
  /\ before' = data
  /\ UNCHANGED <<previous, width, height, depth, opacity, queue, attenuation, sources, sky_color,
                 removal, refill>>

\* lightmap.get(x, y, z)
LmGet ==
  /\ pc = "idle"
  /\ \E c \in Coords :
        /\ args' = <<c[1], c[2], c[3]>>
        /\ IF InData(data, Index(c[1], c[2], c[3]))
           THEN ret' = Get(data, c[1], c[2], c[3]) /\ pc' = "idle"
           ELSE ret' = <<>> /\ pc' = "panicked"
  /\ op' = "get"
  /\ before' = data
  /\ UNCHANGED <<previous, width, height, depth, data, opacity, queue, attenuation, sources,
                 sky_color, removal, refill>>

\* lightmap.clear()
LmClear ==
  /\ pc = "idle"
  /\ data' = Clear(data)
  /\ op' = "clear"
  /\ args' = <<>>
  /\ ret' = <<>>
  /\ before' = data
  /\ UNCHANGED <<previous, width, height, depth, opacity, pc, queue, attenuation, sources, sky_color,
                 removal, refill>>

\* lightmap.as_bytes()
LmAsBytes ==
  /\ pc = "idle"
  /\ ret' = AsBytes(data, 0)
  /\ op' = "as_bytes"
  /\ args' = <<>>
  /\ before' = data
  /\ UNCHANGED <<previous, width, height, depth, data, opacity, pc, queue, attenuation, sources,
                 sky_color, removal, refill>>

\* ------------------------------------------------------------------------
\* Specifications
\* ------------------------------------------------------------------------
\* The worlds of the general specification: open worlds with at most MaxBlocks
\* blocks in the air, and solid worlds with at most MaxBlocks voxels that are
\* not fully opaque.
OpacityFields(R) ==
  { f \in [R -> Opacities] :
      \/ Cardinality({ v \in R : f[v] # 0 }) <= MaxBlocks
      \/ Cardinality({ v \in R : f[v] # Opaque }) <= MaxBlocks }

\* Worlds of air and fully opaque blocks only.
BinaryFields(R) == [R -> {0, Opaque}]

Box(w, h, d) == (0 .. w - 1) \X (0 .. h - 1) \X (0 .. d - 1)

\* Lightmap::new(w, h, d), and no call made yet.
InitRegion(w, h, d) ==
  /\ width = w
  /\ height = h
  /\ depth = d
  /\ data = NewData(w, h, d)
  /\ pc = "idle"
  /\ op = "none"
  /\ queue = <<>>
  /\ attenuation = 0
  /\ sources = <<>>
  /\ sky_color = Black
  /\ before = NewData(w, h, d)
  /\ removal = <<>>
  /\ refill = <<>>
  /\ args = <<>>
  /\ ret = <<>>
  /\ previous = [op |-> "none", sources |-> <<>>, sky_color |-> Black, attenuation |-> 0]

\* The general specification: a region two voxels high, one call on it.
Init ==
  /\ InitRegion(Width, 2, 1)
  /\ opacity \in OpacityFields(Box(Width, 2, 1))

Next ==
  \/ Propagate
  \/ PropagateStep
  \/ PropagateReturn
  \/ PropagateSky
  \/ PropagateSkyStep
  \/ PropagateSkyReturn

Spec == Init /\ [][Next]_vars

\* The calls run to their end: a call that can take a step takes it.
Fairness ==
  /\ WF_vars(PropagateStep)
  /\ WF_vars(PropagateReturn)
  /\ WF_vars(PropagateSkyStep)
  /\ WF_vars(PropagateSkyReturn)

FairSpec == Spec /\ Fairness

\* A cubic region of air with a single light source anywhere in it.
InitOpen ==
  /\ InitRegion(OpenSide, OpenSide, OpenSide)
  /\ opacity = [v \in Box(OpenSide, OpenSide, OpenSide) |-> 0]

PropagateOne ==
  /\ pc = "idle"
  /\ op = "none"
  /\ \E pos \in Region, i \in 1 .. Len(Palette), att \in Attenuations :
        PropagateCall(<<LightSource(pos, i)>>, att)

NextOpen ==
  \/ PropagateOne
  \/ PropagateStep
  \/ PropagateReturn

SpecOpen == InitOpen /\ [][NextOpen]_vars

\* The cubic region of air, lit by a single source or by the sky.
NextBoundary ==
  \/ PropagateOne
  \/ PropagateStep
  \/ PropagateReturn
  \/ PropagateSky
  \/ PropagateSkyStep
  \/ PropagateSkyReturn

SpecBoundary == InitOpen /\ [][NextBoundary]_vars

\* A terrain of air and opaque blocks, one voxel deep, lit by the sky.
InitSky ==
  /\ InitRegion(SkyWidth, SkyHeight, 1)
  /\ opacity \in BinaryFields(Box(SkyWidth, SkyHeight, 1))

NextSky ==
  \/ PropagateSky
  \/ PropagateSkyStep
  \/ PropagateSkyReturn

SpecSky == InitSky /\ [][NextSky]_vars

\* A corridor one voxel high and deep.
InitCorridor ==
  /\ InitRegion(CorridorLen, 1, 1)
  /\ opacity \in OpacityFields(Box(CorridorLen, 1, 1))

NextCorridor ==
  \/ Propagate
  \/ PropagateStep
  \/ PropagateReturn

SpecCorridor == InitCorridor /\ [][NextCorridor]_vars

\* A corridor lit by one propagate call with a single source, and then one
\* unpropagate call on it.
NextRemoval ==
  \/ PropagateOne
  \/ PropagateStep
  \/ PropagateReturn
  \/ Unpropagate
  \/ SiphonStep
  \/ SiphonOverflow
  \/ Refill

SpecRemoval == InitCorridor /\ [][NextRemoval]_vars

\* The calls run to their end: a loop that can go on goes on.
FairnessRemoval ==
  /\ WF_vars(PropagateStep)
  /\ WF_vars(PropagateReturn)
  /\ WF_vars(SiphonStep)
  /\ WF_vars(SiphonOverflow)
  /\ WF_vars(Refill)

FairSpecRemoval == SpecRemoval /\ FairnessRemoval

\* A lightmap of its own, Lightmap::new(LmWidth, 2, 2), and calls of its methods.
InitLightmap ==
  /\ InitRegion(LmWidth, 2, 2)
  /\ opacity = [v \in Box(LmWidth, 2, 2) |-> 0]

NextLightmap ==
  \/ LmSet
  \/ LmGet
  \/ LmClear
  \/ LmAsBytes

SpecLightmap == InitLightmap /\ [][NextLightmap]_vars

\* A corridor lit by one propagate call, and then a propagate call whose
\* sources all lie outside it.
NextOutside ==
  \/ PropagateOne
  \/ PropagateStep
  \/ PropagateReturn
  \/ PropagateOutside

SpecOutside == InitCorridor /\ [][NextOutside]_vars

\* A terrain lit by the sky, and then one unpropagate_sky call on it.
NextSkyRemoval ==
  \/ PropagateSky
  \/ PropagateSkyStep
  \/ PropagateSkyReturn
  \/ UnpropagateSky
  \/ SiphonStep
  \/ SiphonOverflow
  \/ Refill
  \/ PropagateReturn

SpecSkyRemoval == InitSky /\ [][NextSkyRemoval]_vars

\* Attenuations and colours at the upper end of u8, where attenuation plus
\* opacity reaches 255 and beyond.
HighAttenuations == {0, 128, 253, 254, 255}

BrightColors == { <<255, 128, 3>>, <<100, 100, 100>> }

\* A call of propagate with a single bright source.
PropagateBright ==
  /\ pc = "idle"
  /\ op = "none"
  /\ \E pos \in Region, color \in BrightColors, att \in HighAttenuations :
        PropagateCall(<<[x |-> pos[1], y |-> pos[2], z |-> pos[3], color |-> color]>>, att)

\* A corridor lit by one bright source under a high attenuation.
NextSaturation ==
  \/ PropagateBright
  \/ PropagateStep
  \/ PropagateReturn

SpecSaturation == InitCorridor /\ [][NextSaturation]_vars

\* A further propagate call, with a single source anywhere in the region, on
\* the lightmap that propagate or propagate_sky has left.
PropagateMore ==
  /\ pc = "idle"
  /\ op \in {"propagate", "propagate_sky"}
  /\ \E pos \in Region, i \in 1 .. Len(Palette), att \in Attenuations :
        PropagateAgainCall(<<LightSource(pos, i)>>, att)

\* A region of air and opaque blocks, lit by one call of propagate or of
\* propagate_sky and then by a second call of propagate.
InitTwice ==
  /\ InitRegion(TwiceWidth, 2, 1)
  /\ opacity \in BinaryFields(Box(TwiceWidth, 2, 1))

NextTwice ==
  \/ PropagateOne
  \/ PropagateStep
  \/ PropagateReturn
  \/ PropagateSky
  \/ PropagateSkyStep
  \/ PropagateSkyReturn
  \/ PropagateMore

SpecTwice == InitTwice /\ [][NextTwice]_vars

\* ------------------------------------------------------------------------
\* Vocabulary of the properties
\* ------------------------------------------------------------------------
Light(v) == Get(data, v[1], v[2], v[3])

LightBefore(v) == Get(before, v[1], v[2], v[3])

Monus(a, b) == IF a > b THEN a - b ELSE 0

Abs(a) == IF a < 0 THEN -a ELSE a

Manhattan(u, v) == Abs(u[1] - v[1]) + Abs(u[2] - v[2]) + Abs(u[3] - v[3])

FaceAdjacent(u, v) == Manhattan(u, v) = 1

\* The propagate call has returned, and the lightmap was all black before it.
PropagateReturned == pc = "idle" /\ op = "propagate"

WasBlack == \A v \in Region : LightBefore(v) = Black

\* The sources of the call that lie in the region, by their place in the list.
SeedIndices == { i \in 1 .. Len(sources) :
                   <<sources[i].x, sources[i].y, sources[i].z>> \in Region }

SeedPos(i) == <<sources[i].x, sources[i].y, sources[i].z>>

SeedVoxels == { SeedPos(i) : i \in SeedIndices }

\* A cost no light survives.
Far == Opaque + 1

\* The voxel stored at place i of the lightmap, and the place of a voxel in a
\* table that lists one value per voxel in the order of the lightmap.
VoxelAt(i) == << i % width, (i \div width) % height, i \div (width * height) >>

Place(v) == v[1] + v[2] * width + v[3] * width * height + 1

SetMin(S) == CHOOSE m \in S : \A e \in S : m <= e

SetMax(S) == IF S = {} THEN 0 ELSE CHOOSE m \in S : \A e \in S : e <= m

\* The cheapest cost of reaching v given the costs D of reaching each voxel: a
\* step into v costs att + opacity(v), and no step enters a fully opaque voxel.
CostInto(D, att, v) ==
  IF opacity[v] = Opaque THEN D[Place(v)]
  ELSE SetMin({ D[Place(v)] } \cup
              { min(Far, D[Place(u)] + att + opacity[v]) : u \in { n \in Region : FaceAdjacent(n, v) } })

\* One round of relaxation of the table D, from place i on.
RECURSIVE RelaxCost(_, _, _)
RelaxCost(D, att, i) ==
  IF i >= Size THEN <<>>
  ELSE <<CostInto(D, att, VoxelAt(i))>> \o RelaxCost(D, att, i + 1)

RECURSIVE CostRounds(_, _, _)
CostRounds(D, att, k) == IF k = 0 THEN D ELSE CostRounds(RelaxCost(D, att, 0), att, k - 1)

RECURSIVE StartCost(_, _)
StartCost(s, i) ==
  IF i >= Size THEN <<>>
  ELSE << IF VoxelAt(i) = s THEN 0 ELSE Far >> \o StartCost(s, i + 1)

\* cost(s, v) for every v, capped at Far: a path has fewer than Size steps.
Cost(s, att) == CostRounds(StartCost(s, 0), att, Size)

\* The cost tables of the sources i .. Len(sources) (no table for a source
\* outside the region).
RECURSIVE SeedCosts(_, _)
SeedCosts(att, i) ==
  IF i > Len(sources) THEN <<>>
  ELSE << IF i \in SeedIndices THEN Cost(SeedPos(i), att) ELSE <<>> >> \o SeedCosts(att, i + 1)

\* The steady-state light of v: per channel, the brightest of what the seeds deliver.
SteadyLight(costs, v) ==
  << SetMax({ Monus(sources[i].color[1], costs[i][Place(v)]) : i \in SeedIndices }),
     SetMax({ Monus(sources[i].color[2], costs[i][Place(v)]) : i \in SeedIndices }),
     SetMax({ Monus(sources[i].color[3], costs[i][Place(v)]) : i \in SeedIndices }) >>

SteadyEverywhere(costs) == \A v \in Region : Light(v) = SteadyLight(costs, v)

\* The voxels an open path (one that enters no fully opaque voxel) from a seed reaches.
RECURSIVE OpenReach(_, _)
OpenReach(S, k) ==
  IF k = 0 THEN S
  ELSE OpenReach(S \cup { v \in Region : opacity[v] # Opaque /\ \E u \in S : FaceAdjacent(u, v) },
                 k - 1)

Reached == OpenReach(SeedVoxels, Size)

\* ------------------------------------------------------------------------
\* C1: from an all-black lightmap, propagate leaves at every voxel, per
\* channel, the maximum over the seeds of colour minus the cheapest path cost,
\* a step into a voxel costing attenuation + opacity of that voxel.
\* ------------------------------------------------------------------------
C1_SteadyState ==
  (PropagateReturned /\ WasBlack) => SteadyEverywhere(SeedCosts(attenuation, 1))

\* ------------------------------------------------------------------------
\* C2: every propagate call terminates: its worklist empties and it returns,
\* for every attenuation, 0 included.
\* ------------------------------------------------------------------------
C2_Terminates == (pc = "bfs") ~> (pc = "idle")

\* A call with attenuation 0 that lit more than its seed has returned.
C2_Witness ==
  /\ PropagateReturned
  /\ attenuation = 0
  /\ \E v \in Region \ SeedVoxels : Light(v) # Black

\* ------------------------------------------------------------------------
\* C3: propagate never writes a fully opaque voxel that is not a seed, no
\* light appears at a voxel that no open path from a seed reaches, and in a
\* fully opaque world exactly the seed voxels are lit.
\* ------------------------------------------------------------------------
C3_OpaqueUntouched ==
  (op = "propagate") =>
     /\ \A v \in Region \ SeedVoxels : opacity[v] = Opaque => Light(v) = LightBefore(v)
     /\ \A v \in Region \ Reached : Light(v) = LightBefore(v)
     /\ (PropagateReturned /\ WasBlack /\ \A v \in Region : opacity[v] = Opaque) =>
           \A v \in Region : (Light(v) # Black) <=> (v \in SeedVoxels)

\* Light stands at the near face of a wall that is no seed, the call has returned.
C3_Witness ==
  /\ PropagateReturned
  /\ \E v \in Region \ SeedVoxels :
        /\ opacity[v] = Opaque
        /\ \E u \in Region : FaceAdjacent(u, v) /\ Monus(Light(u)[1], attenuation) > 0

\* ------------------------------------------------------------------------
\* C4: in a corridor with one semi-opaque voxel n, lit by one source, the
\* light of n is the light of the voxel before it minus attenuation + opacity(n),
\* and the light of the voxel after n is the light of n minus attenuation.
\* ------------------------------------------------------------------------
SemiOpaque(v) == opacity[v] # 0 /\ opacity[v] # Opaque

C4_EntryCost ==
  (PropagateReturned /\ WasBlack /\ Cardinality(SeedIndices) = 1) =>
     \A s \in SeedVoxels, n \in Region :
        (/\ SemiOpaque(n)
         /\ \A v \in Region \ {n} : opacity[v] = 0
         /\ s[1] < n[1]) =>
            LET prev == <<n[1] - 1, 0, 0>>
                next == <<n[1] + 1, 0, 0>>
            IN /\ \A c \in 1 .. 3 :
                    Light(n)[c] = Monus(Light(prev)[c], attenuation + opacity[n])
               /\ next \in Region =>
                    \A c \in 1 .. 3 : Light(next)[c] = Monus(Light(n)[c], attenuation)

\* ------------------------------------------------------------------------
\* C5: sources merge by per-channel maximum: from an all-black lightmap the
\* result for the sources S1 and S2 together is, at every voxel and channel,
\* the maximum of the result for S1 alone and the result for S2 alone.
\* ------------------------------------------------------------------------
\* The sources at the places I of the list, in the order of the list.
RECURSIVE SubList(_, _, _)
SubList(srcs, I, i) ==
  IF i > Len(srcs) THEN <<>>
  ELSE IF i \in I THEN <<srcs[i]>> \o SubList(srcs, I, i + 1)
  ELSE SubList(srcs, I, i + 1)

\* The lightmap is the per-channel maximum of the lightmaps r1 and r2.
IsMaxOf(r1, r2) ==
  \A v \in Region, c \in 1 .. 3 :
     Light(v)[c] = max(Get(r1, v[1], v[2], v[3])[c], Get(r2, v[1], v[2], v[3])[c])

C5_MergeByMax ==
  (PropagateReturned /\ WasBlack) =>
     \A I1 \in SUBSET (1 .. Len(sources)), I2 \in SUBSET (1 .. Len(sources)) :
        (I1 \cup I2 = 1 .. Len(sources)) =>
           IsMaxOf(PropagateResult(before, SubList(sources, I1, 1), attenuation),
                   PropagateResult(before, SubList(sources, I2, 1), attenuation))

EachBrighterSomewhere(r1, r2) ==
  \E v \in Region :
     /\ Get(r1, v[1], v[2], v[3])[1] > Get(r2, v[1], v[2], v[3])[1]
     /\ Get(r2, v[1], v[2], v[3])[2] > Get(r1, v[1], v[2], v[3])[2]
     /\ Get(r1, v[1], v[2], v[3])[2] > 0
     /\ Light(v) # Get(r1, v[1], v[2], v[3])
     /\ Light(v) # Get(r2, v[1], v[2], v[3])

\* Two sources in the region, and a voxel where each is the brighter in a channel.
C5_Witness ==
  /\ PropagateReturned
  /\ Cardinality(SeedIndices) = 2
  /\ EachBrighterSomewhere(PropagateResult(before, <<sources[1]>>, attenuation),
                           PropagateResult(before, <<sources[2]>>, attenuation))

C7_ZeroAttenuationFills ==
  (PropagateReturned /\ Len(sources) = 1 /\ attenuation = 0) =>
     \A v \in Region : Light(v) = sources[1].color

\* A corner seed with attenuation 0 has returned.
C7_Witness ==
  /\ PropagateReturned
  /\ Len(sources) = 1
  /\ attenuation = 0
  /\ SeedPos(1) = <<0, 0, 0>>
  /\ Light(<<width - 1, height - 1, depth - 1>>) # Black

\* ------------------------------------------------------------------------
\* C8: for a single isolated source on an all-black lightmap, propagate
\* followed by unpropagate on the same seed with the same attenuation returns
\* every voxel that propagate had lit to [0, 0, 0].
\* ------------------------------------------------------------------------
\* The running unpropagate call removes the one source of the propagate call
\* that lit the lightmap, with the attenuation of that call.
OwnSeedRemoved ==
  /\ op = "unpropagate"
  /\ Len(sources) = 1
  /\ removal = <<SeedPos(1)>>
  /\ before = PropagateResult(NewData(width, height, depth), sources, attenuation)

C9_RunsToCompletion == pc # "aborted"

\* ------------------------------------------------------------------------
\* C10: after propagate_sky on an all-black lightmap of a world of air and
\* opaque blocks, every voxel above the topmost opaque voxel of its column
\* holds exactly the sky colour, every opaque voxel is black, a voxel is lit
\* only if an open path from a sky-lit voxel reaches it, and under an opaque
\* layer that spans every column everything at or below the layer is black.
\* ------------------------------------------------------------------------
SkyReturned == pc = "idle" /\ op = "propagate_sky"

\* v sees the sky: no opaque voxel at or above it in its column.
OpenToSky(v) == \A y \in v[2] .. height - 1 : opacity[<<v[1], y, v[3]>>] # Opaque

OpaqueLayer(y) == \A x \in 0 .. width - 1, z \in 0 .. depth - 1 : opacity[<<x, y, z>>] = Opaque

C10_SkyColumns ==
  (SkyReturned /\ WasBlack /\ \A v \in Region : opacity[v] \in {0, Opaque}) =>
     /\ \A v \in Region : OpenToSky(v) => Light(v) = sky_color
     /\ \A v \in Region : opacity[v] = Opaque => Light(v) = Black
     /\ \A v \in Region :
          Light(v) # Black => v \in OpenReach({ u \in Region : OpenToSky(u) }, Size)
     /\ \A y \in 0 .. height - 1 :
          OpaqueLayer(y) => \A v \in Region : v[2] <= y => Light(v) = Black

\* Sky light has bled under an overhang: a lit voxel with an opaque voxel above it.
C10_Witness ==
  /\ SkyReturned
  /\ \E v \in Region :
        /\ ~OpenToSky(v)
        /\ Light(v) # Black
        /\ Light(v) # sky_color
  /\ \E u \in Region : opacity[u] = Opaque /\ u[2] = 0

\* ------------------------------------------------------------------------
\* C11: in the column scan of propagate_sky the running intensity is reduced
\* by each voxel's opacity only: a semi-opaque voxel of opacity o under open
\* sky holds saturating_sub(sky_color, o), and the open voxels directly below
\* it hold that same value (seen with attenuation 255, where nothing arrives
\* from the side).
\* ------------------------------------------------------------------------
\* Every voxel above v in its column is air.
UnderOpenSky(v) == \A y \in v[2] + 1 .. height - 1 : opacity[<<v[1], y, v[3]>>] = 0

\* u lies below v in the column of v, with air from u up to v.
OpenBelow(v, u) ==
  /\ u[1] = v[1] /\ u[3] = v[3] /\ u[2] < v[2]
  /\ \A y \in u[2] .. v[2] - 1 : opacity[<<v[1], y, v[3]>>] = 0

SkyThrough(o) ==
  << saturating_sub(sky_color[1], o), saturating_sub(sky_color[2], o),
     saturating_sub(sky_color[3], o) >>

C11_SkyThroughSemiOpaque ==
  (SkyReturned /\ WasBlack) =>
     \A v \in Region :
        (SemiOpaque(v) /\ UnderOpenSky(v)) =>
           /\ Light(v) = SkyThrough(opacity[v])
           /\ attenuation = 255 =>
                 \A u \in Region : OpenBelow(v, u) => Light(u) = SkyThrough(opacity[v])

\* ------------------------------------------------------------------------
\* C12: under an opaque ceiling with exactly one transparent cell, in an
\* otherwise open region, propagate_sky gives every voxel of the column of
\* that cell the full sky colour, and every other voxel under the ceiling the
\* sky colour less attenuation per horizontal step from that column; with an
\* attenuation above 0 such a voxel is strictly less bright than the column.
\* ------------------------------------------------------------------------
\* The layer yc is opaque but for the cell g, and every other voxel is air.
CeilingWithGap(yc, g) ==
  /\ g[2] = yc
  /\ \A v \in Region : opacity[v] = (IF v[2] = yc /\ v # g THEN Opaque ELSE 0)

Horizontal(u, v) == Abs(u[1] - v[1]) + Abs(u[3] - v[3])

SkyLess(k) ==
  << saturating_sub(sky_color[1], k), saturating_sub(sky_color[2], k),
     saturating_sub(sky_color[3], k) >>

StrictlyLessBright(a, b) ==
  /\ \A c \in 1 .. 3 : a[c] <= b[c]
  /\ \E c \in 1 .. 3 : a[c] < b[c]

\* The light the gap g of the ceiling yc lets in.
LeaksThroughGap(yc, g) ==
  /\ \A v \in Region : (v[1] = g[1] /\ v[3] = g[3]) => Light(v) = sky_color
  /\ \A v \in Region :
        (v[2] < yc /\ Horizontal(v, g) > 0) => Light(v) = SkyLess(Horizontal(v, g) * attenuation)

ArgPos == <<args[1], args[2], args[3]>>

C13_OutOfRangeFailsFast ==
  (op \in {"set", "get"} /\ ArgPos \notin Region) =>
     /\ pc = "panicked"
     /\ data = before
     /\ ret = <<>>

\* ------------------------------------------------------------------------
\* C14: as_bytes returns exactly width*height*depth*3 bytes, and the byte at
\* 3*(x + y*width + z*width*height) + c is channel c of get(x, y, z), after
\* any sequence of set and clear calls.
\* ------------------------------------------------------------------------
C14_AsBytes ==
  (op = "as_bytes") =>
     /\ Len(ret) = width * height * depth * 3
     /\ \A v \in Region, c \in 0 .. 2 :
           ret[3 * (v[1] + v[2] * width + v[3] * width * height) + c + 1] = Light(v)[c + 1]

\* The bytes of a lightmap in which a set voxel stands after an unset one.
C14_Witness ==
  /\ op = "as_bytes"
  /\ Light(<<0, 0, 0>>) = Black
  /\ Light(<<width - 1, 0, 1>>) = Palette[1]
  /\ Light(<<0, 1, 0>>) = Palette[1]

\* ------------------------------------------------------------------------
\* C15: for in-range coordinates, set(x, y, z, c) followed by get(x, y, z)
\* returns c, set leaves every other in-range voxel unchanged, and the index
\* mapping is injective on the in-range coordinates.
\* ------------------------------------------------------------------------
C15_SetGet ==
  /\ (op = "set" /\ ArgPos \in Region) =>
        /\ pc = "idle"
        /\ Light(ArgPos) = args[4]
        /\ \A v \in Region \ {ArgPos} : Light(v) = LightBefore(v)
  /\ (op = "get" /\ ArgPos \in Region) => (pc = "idle" /\ ret = Light(ArgPos))
  /\ \A u \in Region, v \in Region :
        Index(u[1], u[2], u[3]) = Index(v[1], v[2], v[3]) => u = v

\* A set voxel has been set again, to another colour, beside a set voxel.
C15_Witness ==
  /\ op = "set"
  /\ ArgPos \in Region
  /\ LightBefore(ArgPos) # Black
  /\ Light(ArgPos) = Black
  /\ \E v \in Region \ {ArgPos} : Light(v) # Black /\ FaceAdjacent(v, ArgPos)

\* ------------------------------------------------------------------------
\* C16: a lightmap is created with every voxel [0, 0, 0], and clear() after
\* any sequence of set calls returns it to that state: every voxel reads
\* [0, 0, 0] and width, height and depth are those it was created with.
\* ------------------------------------------------------------------------
C16_NewAndClear ==
  (op \in {"none", "clear"}) =>
     /\ \A v \in Region : Light(v) = Black
     /\ DOMAIN data = 0 .. width * height * depth - 1
     /\ width = LmWidth /\ height = 2 /\ depth = 2

\* A lightmap with more than one set voxel has been cleared.
C16_Witness ==
  /\ op = "clear"
  /\ Cardinality({ v \in Region : LightBefore(v) # Black }) > 1

\* ------------------------------------------------------------------------
\* C17: propagate with a seed list that has no coordinate in the region (an
\* empty list, or only coordinates outside the bounds) leaves every voxel
\* unchanged and does not panic: the seeds are skipped, not clamped.
\* ------------------------------------------------------------------------
C17_OutsideSeedsSkipped ==
  (op = "propagate_again" /\ SeedIndices = {}) =>
     /\ data = before
     /\ queue = <<>>
     /\ pc \in {"bfs", "idle"}

\* A call with two outside sources has returned on a lit lightmap.
C17_Witness ==
  /\ op = "propagate_again"
  /\ pc = "idle"
  /\ Len(sources) = 2
  /\ SeedIndices = {}
  /\ sources[1].x = width
  /\ \E v \in Region : Light(v) # Black
  /\ Light(<<width - 1, 0, 0>>) = Black

\* ------------------------------------------------------------------------
\* C18: the channels propagate independently: the final value of a channel
\* at every voxel is what it would be if the other two channels of every
\* seed were 0.
\* ------------------------------------------------------------------------
\* The colour col with every channel but c at 0.
OnlyChannel(col, c) ==
  << IF c = 1 THEN col[1] ELSE 0, IF c = 2 THEN col[2] ELSE 0, IF c = 3 THEN col[3] ELSE 0 >>

\* The sources i .. Len(srcs) with every channel but c at 0.
RECURSIVE ChannelOf(_, _, _)
ChannelOf(srcs, c, i) ==
  IF i > Len(srcs) THEN <<>>
  ELSE << [srcs[i] EXCEPT !.color = OnlyChannel(srcs[i].color, c)] >> \o ChannelOf(srcs, c, i + 1)

\* The lightmap agrees with the lightmap r in channel c.
AgreesInChannel(r, c) == \A v \in Region : Light(v)[c] = Get(r, v[1], v[2], v[3])[c]

C18_ChannelsIndependent ==
  PropagateReturned =>
     \A c \in 1 .. 3 :
        AgreesInChannel(PropagateResult(before, ChannelOf(sources, c, 1), attenuation), c)

\* Beside the seed, one channel has died out while another went on.
C18_Witness ==
  /\ PropagateReturned
  /\ \E i \in SeedIndices, v \in Region \ SeedVoxels :
        /\ FaceAdjacent(v, SeedPos(i))
        /\ sources[i].color[1] > 0 /\ sources[i].color[2] > 0
        /\ Light(v)[1] > 0 /\ Light(v)[2] = 0

\* ------------------------------------------------------------------------
\* C19: propagation stops at the region boundary: propagate and
\* propagate_sky never read or write a light value at a coordinate outside
\* the region, also for a seed on a face, edge or corner; a corner seed
\* spreads only to its in-region neighbours.
\* ------------------------------------------------------------------------
\* The neighbours of p that pass the bounds tests of the loop: those whose
\* block and light the loop goes on to read, and may write and enqueue.
Consulted(p) ==
  { <<p[1] + neighbors[i][1], p[2] + neighbors[i][2], p[3] + neighbors[i][3]>> : i \in
      { j \in 1 .. 6 : NeighborInRegion(p[1] + neighbors[j][1], p[2] + neighbors[j][2],
                                         p[3] + neighbors[j][3]) } }

Corners == { v \in Region : /\ v[1] \in {0, width - 1}
                            /\ v[2] \in {0, height - 1}
                            /\ v[3] \in {0, depth - 1} }

C19_StopsAtBoundary ==
  /\ (op \in {"propagate", "propagate_sky"}) =>
        /\ \A i \in 1 .. Len(queue) : queue[i] \in Region /\ Consulted(queue[i]) \subseteq Region
        /\ DOMAIN data = 0 .. Size - 1
  /\ (PropagateReturned /\ WasBlack /\ Len(sources) = 1 /\ SeedIndices = {1}
        /\ SeedPos(1) \in Corners /\ \A v \in Region : opacity[v] = 0) =>
        \A v \in Region :
           FaceAdjacent(v, SeedPos(1)) => Light(v) = Attenuated(sources[1].color, attenuation)

\* A seed in the far corner has lit its three neighbours in the region.
C19_Witness ==
  /\ PropagateReturned
  /\ Len(sources) = 1
  /\ SeedVoxels = { <<width - 1, height - 1, depth - 1>> }
  /\ Light(<<width - 2, height - 1, depth - 1>>) # Black
  /\ Light(<<width - 1, height - 2, depth - 1>>) # Black
  /\ Light(<<width - 1, height - 1, depth - 2>>) # Black

\* ------------------------------------------------------------------------
\* C20: during propagate every write to a voxel strictly increases at least
\* one channel and decreases none, and after seeding a voxel is enqueued only
\* in the step that strictly increased it.
\* ------------------------------------------------------------------------
\* No channel of any voxel is lowered by the step.
NeverLowered == \A i \in DOMAIN data, c \in 1 .. 3 : data'[i][c] >= data[i][c]

\* The voxels whose light the step has changed.
Changed == { v \in Region : Get(data', v[1], v[2], v[3]) # Get(data, v[1], v[2], v[3]) }

\* The step has popped the head and appended exactly the changed voxels.
EnqueuedIffIncreased ==
  /\ Len(queue') >= Len(queue) - 1
  /\ SubSeq(queue', 1, Len(queue) - 1) = Tail(queue)
  /\ { queue'[i] : i \in Len(queue) .. Len(queue') } = Changed
  /\ Len(queue') - Len(queue) + 1 = Cardinality(Changed)

C20_WritesOnlyIncrease ==
  [][ (op' = "propagate") =>
         /\ NeverLowered
         /\ (pc = "bfs" /\ pc' = "bfs") => EnqueuedIffIncreased ]_vars

\* A voxel that is no seed holds the light of two sources and waits in the worklist.
C20_Witness ==
  /\ op = "propagate"
  /\ pc = "bfs"
  /\ \E i \in 1 .. Len(queue) :
        /\ queue[i] \notin SeedVoxels
        /\ Light(queue[i])[1] > 0 /\ Light(queue[i])[3] > 0

\* ------------------------------------------------------------------------
\* C21: seeding merges by per-channel maximum
\* ------------------------------------------------------------------------
\* A call of propagate is made by this step: its seeding loop has run.
Seeds == pc = "idle" /\ pc' = "bfs" /\ op' \in {"propagate", "propagate_again"}

\* Channel c of the colours of the sources of srcs that lie at voxel v.
SeedChannelAt(srcs, v, c) ==
  { srcs[i].color[c] : i \in { j \in 1 .. Len(srcs) : <<srcs[j].x, srcs[j].y, srcs[j].z>> = v } }

\* C21: when propagate has seeded, every voxel holds, per channel, the maximum
\* of what it held and of the colours of the seeds at it (so a dimmer seed
\* lowers nothing and a voxel without a seed is unchanged), and from then on,
\* until and when the call has returned, every seed voxel is at least as
\* bright as its seed colour in every channel.
C21_SeedingMerges ==
  [][ /\ Seeds =>
           \A v \in Region, c \in 1 .. 3 :
              Get(data', v[1], v[2], v[3])[c] = max(Light(v)[c], SetMax(SeedChannelAt(sources', v, c)))
      /\ (op' \in {"propagate", "propagate_again"}) =>
           \A i \in 1 .. Len(sources'), c \in 1 .. 3 :
              LET s == <<sources'[i].x, sources'[i].y, sources'[i].z>>
              IN (s \in Region) => Get(data', s[1], s[2], s[3])[c] >= sources'[i].color[c]
    ]_vars

\* The second call has seeded a voxel that was brighter than the seed in one
\* channel and dimmer in another: the voxel holds the maximum of each.
C21_Witness ==
  /\ op = "propagate_again"
  /\ pc = "bfs"
  /\ queue = <<SeedPos(1)>>
  /\ \E c \in 1 .. 3 : LightBefore(SeedPos(1))[c] > sources[1].color[c]
  /\ \E c \in 1 .. 3 : LightBefore(SeedPos(1))[c] < sources[1].color[c]
  /\ Light(SeedPos(1)) = Merged(LightBefore(SeedPos(1)), sources[1].color)
  /\ Light(SeedPos(1)) # sources[1].color

\* ------------------------------------------------------------------------
\* C22: what the siphon pass does with a neighbour, and what the refill pass
\* hands to propagate
\* ------------------------------------------------------------------------
\* The neighbour n holds old - (attenuation + opacity(n)) in every channel.
DerivedFrom(old, n) ==
  \A c \in 1 .. 3 :
     get_light(data, n)[c] = Monus(old[c], attenuation + get_opacity(n[1], n[2], n[3]))

\* The neighbours of the entry at the head of the siphon worklist that match,
\* and those that do not, in the order they are compared.
MatchingNeighbors ==
  SelectSeq(Neighbors(Head(queue)[1]), LAMBDA n : DerivedFrom(Head(queue)[2], n))

OtherNeighbors ==
  SelectSeq(Neighbors(Head(queue)[1]), LAMBDA n : ~DerivedFrom(Head(queue)[2], n))

\* One entry of the siphon worklist is handled by this step.
SiphonClassifies ==
  (pc = "siphon" /\ pc' = "siphon") =>
     /\ \A i \in 1 .. Len(MatchingNeighbors) :
           get_light(data', MatchingNeighbors[i]) = Black
     /\ \A i \in 1 .. Len(OtherNeighbors) :
           get_light(data', OtherNeighbors[i]) = get_light(data, OtherNeighbors[i])
     /\ queue' = Tail(queue) \o [i \in 1 .. Len(MatchingNeighbors) |->
                                   <<MatchingNeighbors[i], get_light(data, MatchingNeighbors[i])>>]
     /\ refill' = refill \o OtherNeighbors

\* propagate runs with the recorded refill seeds and the light they hold.
RefillRuns ==
  /\ pc = "bfs"
  /\ op = "unpropagate"
  /\ Len(sources) = Len(refill)
  /\ \A i \in 1 .. Len(refill) :
        /\ in_bounds(refill[i]) => SeedPos(i) = refill[i]
        /\ sources[i].color = get_light(data, refill[i])

StepsBelow(c, i) == <<c[1], c[2] - i, c[3]>>

\* A voxel the walk goes on through: non-opaque and lit when the call is made.
LitAndOpen(c) == get_opacity(c[1], c[2], c[3]) # Opaque /\ get_light(data, c) # Black

\* C23: unpropagate_sky(placed_pos) collects exactly the run of non-opaque,
\* lit voxels directly below placed_pos, from placed_pos - (0,1,0) downwards
\* up to the first opaque or unlit voxel and nothing beyond it, and hands it
\* to unpropagate, which records the light of each, zeroes it and enqueues it.
C23_CollectsColumn ==
  [][ (pc = "idle" /\ op' = "unpropagate_sky") =>
        LET placed_pos == args'[1]
            k == Len(removal')
        IN /\ \A i \in 1 .. k :
                 removal'[i] = StepsBelow(placed_pos, i) /\ LitAndOpen(removal'[i])
           /\ ~LitAndOpen(StepsBelow(placed_pos, k + 1))
           /\ pc' = "siphon"
           /\ queue' = [i \in 1 .. k |-> <<removal'[i], get_light(data, removal'[i])>>]
           /\ \A v \in Region :
                 Get(data', v[1], v[2], v[3]) =
                    IF \E i \in 1 .. k : removal'[i] = v THEN Black ELSE Light(v)
    ]_vars

\* The walk has stopped at an opaque block inside the region although the
\* voxel under that block is lit: one voxel was collected, the lit voxel
\* beyond the block was not.
C23_Witness ==
  /\ op = "unpropagate_sky"
  /\ pc = "siphon"
  /\ Len(removal) = 1
  /\ queue = << <<removal[1], get_light(before, removal[1])>> >>
  /\ LET stop == StepsBelow(args[1], 2)
     IN /\ stop \in Region
        /\ opacity[stop] = Opaque
        /\ Below(stop) \in Region
        /\ opacity[Below(stop)] # Opaque
        /\ get_light(before, Below(stop)) # Black
        /\ Light(Below(stop)) # Black

\* ------------------------------------------------------------------------
\* C24: the light arithmetic saturates in 8 bits
\* ------------------------------------------------------------------------
\* saturating_add(attenuation, opacity(n)): the cost of the step into n.
StepCost(n) == IF attenuation + opacity[n] > 255 THEN 255 ELSE attenuation + opacity[n]

\* C24: every channel stays within 0 .. 255 and propagate never panics; the
\* cost of a step into n is attenuation + opacity(n) clamped at 255 and never
\* wrapped, so that when attenuation + opacity(n) >= 255 no light enters n:
\* when propagate returns on a lightmap that was black, such a voxel is unlit
\* unless it is a seed.
C24_Saturates ==
  /\ (op = "propagate") =>
        /\ pc \notin {"panicked", "aborted"}
        /\ \A v \in Region, c \in 1 .. 3 : Light(v)[c] \in 0 .. 255
  /\ (PropagateReturned /\ WasBlack) =>
        \A n \in Region \ SeedVoxels : (StepCost(n) = 255) => Light(n) = Black

\* ------------------------------------------------------------------------
\* C25: the result does not depend on the order of the visits
\* ------------------------------------------------------------------------
\* The orders of the neighbour directions. The region is one voxel deep, so
\* the neighbours at z + 1 and z - 1 (directions 5 and 6) lie outside it
\* wherever they come in the order: the orders of the other four are all the
\* orders that can differ.
Orders == { [i \in 1 .. 6 |-> IF i <= 4 THEN f[i] ELSE i] : f \in Permutations(1 .. 4) }

\* The list srcs in the order f.
Permuted(srcs, f) == [i \in 1 .. Len(srcs) |-> srcs[f[i]]]

\* C25: when propagate returns, the lightmap is the one that propagate leaves
\* for the same lightmap, opacity field and attenuation when the seed list
\* is given in any other order and the neighbours are visited in any other
\* order of the directions.
C25_OrderIndependent ==
  (PropagateReturned /\ depth = 1) =>
     \A f \in Permutations(1 .. Len(sources)), dirs \in Orders :
        PropagateResultIn(dirs, before, Permuted(sources, f), attenuation) = data

\* Two seeds of different colours at different voxels of a world with a
\* block in it, and a voxel that holds light of both.
C25_Witness ==
  /\ PropagateReturned
  /\ Len(sources) = 2
  /\ SeedIndices = {1, 2}
  /\ SeedPos(1) # SeedPos(2)
  /\ \E v \in Region : opacity[v] = Opaque
  /\ \E v \in Region \ SeedVoxels : Light(v)[1] > 0 /\ Light(v)[3] > 0
  /\ attenuation = 1

\* ------------------------------------------------------------------------
\* C26: light is carried across face-adjacent steps only
\* ------------------------------------------------------------------------
\* u and v touch at an edge or at a corner, not at a face.
DiagonallyAdjacent(u, v) ==
  /\ Abs(u[1] - v[1]) <= 1 /\ Abs(u[2] - v[2]) <= 1 /\ Abs(u[3] - v[3]) <= 1
  /\ Manhattan(u, v) \in {2, 3}

\* Channel c of v is what a face-adjacent voxel hands over a step into v.
HandedByFaceNeighbor(v, c) ==
  \E p \in Region :
     FaceAdjacent(p, v) /\ Light(v)[c] = Monus(Light(p)[c], attenuation + opacity[v])

\* C26: when propagate returns on a lightmap that was black, every lit voxel
\* that is not a seed has, in each channel that is not zero, a face-adjacent
\* neighbour p with light(v) = saturating_sub(light(p), attenuation +
\* opacity(v)); and a voxel that touches the only source at an edge or at a
\* corner holds no more than two or three face steps deliver.
C26_FaceStepsOnly ==
  (PropagateReturned /\ WasBlack) =>
     /\ \A v \in Region \ SeedVoxels, c \in 1 .. 3 :
           (Light(v)[c] > 0) => HandedByFaceNeighbor(v, c)
     /\ (Len(sources) = 1 /\ SeedIndices = {1}) =>
           \A v \in Region, c \in 1 .. 3 :
              DiagonallyAdjacent(v, SeedPos(1)) =>
                 Light(v)[c] <= Monus(sources[1].color[c], Manhattan(v, SeedPos(1)) * attenuation)

\* ------------------------------------------------------------------------
\* C27: successive calls compose like one call
\* ------------------------------------------------------------------------
\* The second propagate call has returned; the call before it was made with
\* the same attenuation.
SecondReturned == pc = "idle" /\ op = "propagate_again" /\ previous.attenuation = attenuation

AllBlack == NewData(width, height, depth)

\* C27: with one opacity field and one attenuation, propagate(S1) on a black
\* lightmap followed by propagate(S2) leaves the lightmap that the single
\* call propagate(S1 then S2) leaves on a black lightmap; and propagate of a
\* block light after propagate_sky leaves no voxel less bright in any
\* channel than the sky call left it, the seed voxel holding the per-channel
\* maximum of its sky light and of the colour of the block light.
C27_Composes ==
  /\ (/\ SecondReturned
      /\ previous.op = "propagate"
      /\ before = PropagateResult(AllBlack, previous.sources, attenuation)) =>
        data = PropagateResult(AllBlack, previous.sources \o sources, attenuation)
  /\ (SecondReturned /\ previous.op = "propagate_sky") =>
        /\ \A v \in Region, c \in 1 .. 3 : Light(v)[c] >= LightBefore(v)[c]
        /\ \A i \in SeedIndices :
              Light(SeedPos(i)) = Merged(LightBefore(SeedPos(i)), sources[i].color)

\* Two calls with one source each, at different voxels: the second call has
\* raised some voxel the first had lit, and has left another as it was.
C27_Witness ==
  /\ SecondReturned
  /\ previous.op = "propagate"
  /\ attenuation = 1
  /\ SeedIndices = {1}
  /\ <<previous.sources[1].x, previous.sources[1].y, previous.sources[1].z>> # SeedPos(1)
  /\ \E v \in Region : LightBefore(v) # Black /\ Light(v) # LightBefore(v)
  /\ \E v \in Region : LightBefore(v) # Black /\ Light(v) = LightBefore(v)
  /\ data = PropagateResult(AllBlack, previous.sources \o sources, attenuation)

\* ------------------------------------------------------------------------
\* C28: the lightmap propagate leaves is a local fixpoint
\* ------------------------------------------------------------------------
\* No step from p into its neighbour n would raise n in any channel.
Relaxed(p, n) ==
  \A c \in 1 .. 3 : Light(n)[c] >= Monus(Light(p)[c], attenuation + opacity[n])

\* C28: when propagate returns on a lightmap that was black, every voxel p
\* and every face-adjacent neighbour n in the region with opacity(n) < 255
\* satisfy light(n) >= saturating_sub(light(p), attenuation + opacity(n)) in
\* every channel: no relaxation step is left to take.
C28_LocalFixpoint ==
  (PropagateReturned /\ WasBlack) =>
     \A p \in Region, n \in Region :
        (FaceAdjacent(p, n) /\ opacity[n] < Opaque) => Relaxed(p, n)

\* Light has gone around a block: two seeds, a lit voxel that is no seed and
\* is dimmer than a lit neighbour by exactly the attenuation in one channel
\* and brighter than it in another.
C28_Witness ==
  /\ PropagateReturned
  /\ WasBlack
  /\ attenuation = 1
  /\ Cardinality(SeedVoxels) = 2
  /\ \E v \in Region : opacity[v] = Opaque /\ Light(v) = Black
  /\ \E p \in Region, n \in Region \ SeedVoxels :
        /\ FaceAdjacent(p, n)
        /\ Light(n)[1] > 0
        /\ Light(n)[1] = Light(p)[1] - 1
        /\ Light(n)[3] > Light(p)[3]

\* ------------------------------------------------------------------------
\* C29: propagate is idempotent
\* ------------------------------------------------------------------------
\* The running or returned call is a second propagate call with the seeds
\* and the attenuation of the propagate call before it.
SameCallAgain ==
  /\ op = "propagate_again"
  /\ previous.op = "propagate"
  /\ previous.sources = sources
  /\ previous.attenuation = attenuation

\* C29: a second propagate call with the same seeds, opacity field and
\* attenuation, made directly after the first has returned, changes no
\* voxel: the lightmap stays, all through the call and when it has returned,
\* what the first call left.
C29_Idempotent == SameCallAgain => data = before

\* The same call has been made twice and the second has returned; the first
\* had lit voxels beyond its seed, dimmer than the seed.
C29_Witness ==
  /\ SameCallAgain
  /\ pc = "idle"
  /\ attenuation = 1
  /\ SeedIndices = {1}
  /\ \E v \in Region \ SeedVoxels : Light(v) # Black /\ Light(v) # Light(SeedPos(1))
  /\ data = before

\* ------------------------------------------------------------------------
\* C30: propagation never amplifies light
\* ------------------------------------------------------------------------
\* The brightest value of channel c in the lightmap before the call.
BrightestBefore(c) == SetMax({ LightBefore(v)[c] : v \in Region })

\* The brightest value of channel c among the colours the call was given.
BrightestGiven(c) ==
  IF op = "propagate_sky" THEN sky_color[c]
  ELSE SetMax({ sources[i].color[c] : i \in 1 .. Len(sources) })

\* C30: in every state reached during propagate or propagate_sky, and when
\* the call has returned, each channel of each voxel is at most the maximum
\* of that channel over the seed colours (the sky colour for propagate_sky)
\* and over the values the lightmap held before the call.
C30_NoAmplification ==
  (op \in {"propagate", "propagate_again", "propagate_sky"}) =>
     \A v \in Region, c \in 1 .. 3 :
        Light(v)[c] <= max(BrightestGiven(c), BrightestBefore(c))

\* A second call is running on a lightmap that was lit: one voxel holds a
\* value of the earlier light that no seed colour reaches, another holds the
\* seed's own channel at its full value.
C30_Witness ==
  /\ op = "propagate_again"
  /\ pc = "bfs"
  /\ queue # <<>>
  /\ \E v \in Region, c \in 1 .. 3 :
        Light(v)[c] = BrightestBefore(c) /\ BrightestBefore(c) > BrightestGiven(c)
  /\ \E v \in Region, c \in 1 .. 3 :
        Light(v)[c] = BrightestGiven(c) /\ BrightestGiven(c) > BrightestBefore(c)
====
